---------------------------- MODULE Spec2Model ----------------------------
(***************************************************************************)
(* A model of the core of the planetary-system simulator: the entity      *)
(* model (core/bodies.py), the acceleration model (core/physics.py), the  *)
(* integrators and their dispatcher (core/integrators.py) and the event   *)
(* detectors (core/events.py).                                            *)
(*                                                                         *)
(* Numbers.  The program computes in IEEE doubles.  The model computes in  *)
(* exact rationals <<n, d>> (d > 0, lowest terms) extended with the three  *)
(* special values a double has: <<1,0>> is +inf, <<-1,0>> is -inf and      *)
(* <<0,0>> is NaN.  Rounding of finite results is outside the model; the   *)
(* one irrational operation, the square root, is exact where the root is  *)
(* rational and rounded down otherwise (see Sqrt).                         *)
(***************************************************************************)
EXTENDS Integers, Sequences, FiniteSets, TLC

----------------------------------------------------------------------------
(* Scalars *)

AbsInt(i) == IF i < 0 THEN -i ELSE i

SignInt(i) == IF i < 0 THEN -1 ELSE IF i > 0 THEN 1 ELSE 0

RECURSIVE GCD(_, _)
GCD(a, b) == IF b = 0 THEN a ELSE GCD(b, a % b)

NaN == <<0, 0>>

IsNaN(a) == a[2] = 0 /\ a[1] = 0
IsInf(a) == a[2] = 0 /\ a[1] # 0
IsFinite(a) == a[2] > 0

\* The rational n/d (d # 0) in lowest terms with a positive denominator.
Frac(n, d) ==
    LET g == GCD(AbsInt(n), AbsInt(d))
        s == IF d < 0 THEN -1 ELSE 1
    IN  <<s * (n \div g), s * (d \div g)>>

R(i) == <<i, 1>>
Zero == <<0, 1>>
One == <<1, 1>>
Half == <<1, 2>>

RNeg(a) == <<-a[1], a[2]>>

\* a + b as a double adds: NaN is absorbing, inf + (-inf) is NaN.
RAdd(a, b) ==
    IF IsNaN(a) \/ IsNaN(b) THEN NaN
    ELSE IF IsInf(a) THEN (IF IsInf(b) /\ b[1] # a[1] THEN NaN ELSE a)
    ELSE IF IsInf(b) THEN b
    ELSE LET g == GCD(a[2], b[2])
             l == (a[2] \div g) * b[2]
         IN  Frac(a[1] * (l \div a[2]) + b[1] * (l \div b[2]), l)

RSub(a, b) == RAdd(a, RNeg(b))

\* a * b as a double multiplies: NaN is absorbing, 0 * inf is NaN.
RMul(a, b) ==
    IF IsNaN(a) \/ IsNaN(b) THEN NaN
    ELSE IF IsInf(a) \/ IsInf(b)
         THEN (IF a[1] = 0 \/ b[1] = 0 THEN NaN
               ELSE <<SignInt(a[1]) * SignInt(b[1]), 0>>)
    ELSE LET g1 == GCD(AbsInt(a[1]), b[2])
             g2 == GCD(AbsInt(b[1]), a[2])
         IN  IF a[1] = 0 \/ b[1] = 0 THEN Zero
             ELSE <<(a[1] \div g1) * (b[1] \div g2), (a[2] \div g2) * (b[2] \div g1)>>

\* a / b as numpy divides doubles: x/0 is +-inf, 0/0 is NaN, no exception.
RDiv(a, b) ==
    IF IsNaN(a) \/ IsNaN(b) THEN NaN
    ELSE IF IsInf(b) THEN (IF IsInf(a) THEN NaN ELSE Zero)
    ELSE IF b[1] = 0 THEN (IF a[1] = 0 THEN NaN ELSE <<SignInt(a[1]), 0>>)
    ELSE IF IsInf(a) THEN <<a[1] * SignInt(b[1]), 0>>
    ELSE RMul(a, Frac(b[2], b[1]))

\* a < b; every comparison with NaN is false.
RLt(a, b) ==
    IF IsNaN(a) \/ IsNaN(b) THEN FALSE
    ELSE IF IsInf(a) THEN a[1] < 0 /\ b # a
    ELSE IF IsInf(b) THEN b[1] > 0
    ELSE a[1] * b[2] < b[1] * a[2]

\* a == b on doubles: NaN equals nothing, not even itself.
REq(a, b) == ~IsNaN(a) /\ ~IsNaN(b) /\ a = b

RLe(a, b) == RLt(a, b) \/ REq(a, b)

\* The integer square root, rounded down: the r in lo..hi with r*r <= n < (r+1)^2.
RECURSIVE ISqrtIn(_, _, _)
ISqrtIn(n, lo, hi) ==
    IF lo >= hi THEN lo
    ELSE LET mid == (lo + hi + 1) \div 2
         IN  IF mid * mid <= n THEN ISqrtIn(n, mid, hi) ELSE ISqrtIn(n, lo, mid - 1)

ISqrt(n) == ISqrtIn(n, 0, IF n < 46340 THEN n ELSE 46340)

\* sqrt(a) for a >= 0: sqrt(n/d) = sqrt(n*d)/d, exact whenever the root is
\* rational, rounded down to a multiple of 1/d otherwise.
Sqrt(a) ==
    IF IsNaN(a) THEN NaN
    ELSE IF IsInf(a) THEN a
    ELSE Frac(ISqrt(a[1] * a[2]), a[2])

\* ceil(a) of a finite a, as an integer.
CeilInt(a) == -((-a[1]) \div a[2])

----------------------------------------------------------------------------
(* 2-vectors, the rows of the (N, 2) arrays *)

V(x, y) == <<R(x), R(y)>>
ZeroVec == <<Zero, Zero>>

VAdd(u, v) == <<RAdd(u[1], v[1]), RAdd(u[2], v[2])>>
VSub(u, v) == <<RSub(u[1], v[1]), RSub(u[2], v[2])>>
VScale(c, v) == <<RMul(c, v[1]), RMul(c, v[2])>>
VDot(u, v) == RAdd(RMul(u[1], v[1]), RMul(u[2], v[2]))
VNorm(v) == Sqrt(VDot(v, v))

\* Elementwise operations on (N, 2) arrays, sequences of rows.
AAdd(A, B) == [i \in 1..Len(A) |-> VAdd(A[i], B[i])]
AScale(c, A) == [i \in 1..Len(A) |-> VScale(c, A[i])]

----------------------------------------------------------------------------
(* Entity model: core/bodies.py *)

\* A Body holds its position and velocity as two numpy arrays.  An array is
\* an object: the model keeps every array in `heap` (a sequence of 2-vectors)
\* and a Body holds the two addresses.  A SystemState is the sequence of its
\* bodies.
MkBody(name, mass, position, velocity, color) ==
    [name |-> name, mass |-> mass, position |-> position, velocity |-> velocity,
     color |-> color]

\* Body.copy: a new Body whose position and velocity are fresh arrays.
BodyCopyShared(body, h) == [body |-> body, heap |-> h]

BodyCopy(body, h) ==
    [body |-> MkBody(body.name, body.mass, Len(h) + 1, Len(h) + 2, body.color),
     heap |-> h \o <<h[body.position], h[body.velocity]>>]

\* SystemState.copy: [body.copy() for body in self.bodies].
RECURSIVE CopyBodies(_, _, _)
CopyBodies(bodies, i, acc) ==
    IF i > Len(bodies) THEN acc
    ELSE LET r == BodyCopy(bodies[i], acc.heap)
         IN  CopyBodies(bodies, i + 1,
                        [bodies |-> Append(acc.bodies, r.body), heap |-> r.heap])

StateCopy(state, h) == CopyBodies(state, 1, [bodies |-> <<>>, heap |-> h])

\* SystemState.positions / velocities.  np.stack of no arrays raises
\* ValueError, so they are defined on a state with a body only.
StateHasRows(state) == Len(state) > 0
StatePositions(state, h) == [i \in 1..Len(state) |-> h[state[i].position]]
StateVelocities(state, h) == [i \in 1..Len(state) |-> h[state[i].velocity]]

StackError == [type |-> "ValueError", msg |-> "need at least one array to stack"]

Min(a, b) == IF a < b THEN a ELSE b

\* SystemState.update: body.position[...] = pos; body.velocity[...] = vel, in
\* place, body by body, over zip(bodies, positions, velocities).
RECURSIVE UpdateFrom(_, _, _, _, _)
UpdateFrom(state, h, P, W, i) ==
    IF i > Min(Len(state), Min(Len(P), Len(W))) THEN h
    ELSE UpdateFrom(state,
                    [[h EXCEPT ![state[i].position] = P[i]]
                        EXCEPT ![state[i].velocity] = W[i]],
                    P, W, i + 1)

StateUpdate(state, h, P, W) == UpdateFrom(state, h, P, W, 1)

\* What a reader of the state sees: every body with its arrays' contents.
View(state, h) ==
    [i \in 1..Len(state) |->
        [name |-> state[i].name, mass |-> state[i].mass,
         position |-> h[state[i].position], velocity |-> h[state[i].velocity],
         color |-> state[i].color]]

----------------------------------------------------------------------------
(* Acceleration model: core/physics.py *)

\* CONSTANTS.gravitational_constant
GravitationalConstant == 1

\* np.where(cond, a, b) on one element: both a and b have been computed.
Where(cond, a, b) == IF cond THEN a ELSE b

\* distance_sq ** -1.5 under np.errstate(divide="ignore"): +inf at zero.
PowMinusThreeHalves(dsq) == RDiv(One, RMul(dsq, Sqrt(dsq)))

\* inv_dist_cubed for one pair.
InvDistCubedUnguarded(dsq) == PowMinusThreeHalves(dsq)

InvDistCubed(dsq) == Where(RLt(Zero, dsq), PowMinusThreeHalves(dsq), Zero)

\* Row j of `force` for body i:
\* -G * (masses[j] * (positions[i] - positions[j]) * inv_dist_cubed[j]).
PairForce(positions, masses, i, j) ==
    LET displacement == VSub(positions[i], positions[j])
        distance_sq == RAdd(RMul(displacement[1], displacement[1]),
                            RMul(displacement[2], displacement[2]))
    IN  VScale(RNeg(R(GravitationalConstant)),
               VScale(InvDistCubed(distance_sq), VScale(masses[j], displacement)))

\* force.sum(axis=0): the rows added in index order, from zero.
RECURSIVE SumForces(_, _, _, _)
SumForces(positions, masses, i, j) ==
    IF j = 0 THEN ZeroVec
    ELSE VAdd(SumForces(positions, masses, i, j - 1), PairForce(positions, masses, i, j))

\* compute_pairwise_gravity(positions, masses)
ComputePairwiseGravity(positions, masses) ==
    [i \in 1..Len(positions) |-> SumForces(positions, masses, i, Len(positions))]

\* A precession_config is None or a dict (a function from its keys).
CfgNone == [is_none |-> TRUE, items |-> <<>>]
CfgDict(items) == [is_none |-> FALSE, items |-> items]
StrengthKey == "moon_precession_strength"
DictGet(cfg, key, default) == IF key \in DOMAIN cfg.items THEN cfg.items[key] ELSE default
\* `if precession_config:` is false for None and for an empty dict.
Truthy(cfg) == ~cfg.is_none /\ DOMAIN cfg.items # {}

\* next(i for i, body in enumerate(system.bodies) if body.name == name):
\* the first index, or 0 for StopIteration.
RECURSIVE FirstIndexFrom(_, _, _)
FirstIndexFrom(system, name, i) ==
    IF i > Len(system) THEN 0
    ELSE IF system[i].name = name THEN i
    ELSE FirstIndexFrom(system, name, i + 1)

FirstIndex(system, name) == FirstIndexFrom(system, name, 1)

PrecessionError ==
    [type |-> "ValueError", msg |-> "Precession requires bodies named 'Planet' and 'Moon'."]

Ok(val) == [ok |-> TRUE, val |-> val]
Raise(err) == [ok |-> FALSE, error |-> err]

\* The tangential term: strength * [-r_y, r_x] / radius.
TangentialUnnormalised(strength, relative_vector, radius) ==
    VScale(strength, <<RNeg(relative_vector[2]), relative_vector[1]>>)

Tangential(strength, relative_vector, radius) ==
    VScale(strength,
           <<RDiv(RNeg(relative_vector[2]), radius), RDiv(relative_vector[1], radius)>>)

\* `if radius == 0.0: return`
RadiusIsZeroNever(radius) == FALSE

RadiusIsZero(radius) == REq(radius, Zero)

\* The two lookups of apply_precession; 0 stands for StopIteration.
PlanetIndex(system) == FirstIndex(system, "Planet")
MoonIndex(system) == FirstIndex(system, "Moon")

LookupFails(system) == PlanetIndex(system) = 0 \/ MoonIndex(system) = 0

\* `except StopIteration as exc: raise ValueError(...) from exc`
OnMissingBodiesSkip(accelerations) == Ok(accelerations)

OnMissingBodies(accelerations) == Raise(PrecessionError)

\* apply_precession(system, accelerations, precession_config): the array
\* `accelerations` as it is left, or the exception.  `system` is the view of
\* the state the function reads.
ApplyPrecession(system, accelerations, precession_config) ==
    LET strength == DictGet(precession_config, StrengthKey, Zero)
        planet_index == PlanetIndex(system)
        moon_index == MoonIndex(system)
        relative_vector == VSub(system[moon_index].position, system[planet_index].position)
        radius == VNorm(relative_vector)
    IN  IF REq(strength, Zero) THEN Ok(accelerations)
        ELSE IF LookupFails(system) THEN OnMissingBodies(accelerations)
        ELSE IF RadiusIsZero(radius) THEN Ok(accelerations)
        ELSE Ok([accelerations EXCEPT
                    ![moon_index] = VAdd(@, Tangential(strength, relative_vector, radius))])

\* compute_accelerations(system, precession_config)
ComputeAccelerations(system, precession_config) ==
    IF Len(system) = 0 THEN Raise(StackError)
    ELSE LET positions == [i \in 1..Len(system) |-> system[i].position]
             masses == [i \in 1..Len(system) |-> system[i].mass]
             accelerations == ComputePairwiseGravity(positions, masses)
         IN  IF Truthy(precession_config)
             THEN ApplyPrecession(system, accelerations, precession_config)
             ELSE Ok(accelerations)

----------------------------------------------------------------------------
(* Integrators: core/integrators.py *)

\* A method name is a string, modelled as the sequence of its characters.
UpperLetters ==
    <<"A", "B", "C", "D", "E", "F", "G", "H", "I", "J", "K", "L", "M",
      "N", "O", "P", "Q", "R", "S", "T", "U", "V", "W", "X", "Y", "Z">>
LowerLetters ==
    <<"a", "b", "c", "d", "e", "f", "g", "h", "i", "j", "k", "l", "m",
      "n", "o", "p", "q", "r", "s", "t", "u", "v", "w", "x", "y", "z">>

LowerChar(c) ==
    IF \E i \in 1..Len(UpperLetters) : UpperLetters[i] = c
    THEN LowerLetters[CHOOSE i \in 1..Len(UpperLetters) : UpperLetters[i] = c]
    ELSE c

UpperChar(c) ==
    IF \E i \in 1..Len(LowerLetters) : LowerLetters[i] = c
    THEN UpperLetters[CHOOSE i \in 1..Len(LowerLetters) : LowerLetters[i] = c]
    ELSE c

\* str.lower()
LowerCaseSensitive(name) == name

Lower(name) == [i \in 1..Len(name) |-> LowerChar(name[i])]

NameLeapfrog == <<"l", "e", "a", "p", "f", "r", "o", "g">>
NameVerlet == <<"v", "e", "r", "l", "e", "t">>
NameRk4 == <<"r", "k", "4">>
NameEuler == <<"e", "u", "l", "e", "r">>

\* The dict `integrators`: its keys, and the function each key maps to.
IntegratorKeys == {NameLeapfrog, NameVerlet, NameRk4}
IntegratorOf(key) == IF key = NameRk4 THEN "rk4" ELSE "leapfrog"

\* f"Unknown integration method '{method}'."
UnknownMethodMessage(method) ==
    <<"U", "n", "k", "n", "o", "w", "n", " ", "i", "n", "t", "e", "g", "r", "a",
      "t", "i", "o", "n", " ", "m", "e", "t", "h", "o", "d", " ", "'">>
    \o method \o <<"'", ".">>

\* integrators[method.lower()], a KeyError turned into the ValueError.
SelectIntegratorWithDefault(method) ==
    IF Lower(method) \in IntegratorKeys
    THEN Ok(IntegratorOf(Lower(method)))
    ELSE Ok("leapfrog")

SelectIntegrator(method) ==
    IF Lower(method) \in IntegratorKeys
    THEN Ok(IntegratorOf(Lower(method)))
    ELSE Raise([type |-> "ValueError", msg |-> UnknownMethodMessage(method)])

\* The injected acceleration_fn: compute_accelerations, the function the
\* simulation passes, and three synthetic fields: a = -x, which reads the
\* positions only, a = -v, which reads the velocities, and a = 0 below the
\* line y = 2, which raises once a body has reached that line.
AccelerationFns == {"compute_accelerations", "harmonic", "drag", "fenced"}

FenceError == [type |-> "RuntimeError", msg |-> "body out of range"]

InsideFence(rows) == \A i \in 1..Len(rows) : RLt(rows[i][2], R(2))

AccelerationFn(fn, system, precession_config) ==
    IF fn = "compute_accelerations" THEN ComputeAccelerations(system, precession_config)
    ELSE IF fn = "harmonic"
    THEN Ok([i \in 1..Len(system) |-> VScale(RNeg(One), system[i].position)])
    ELSE IF fn = "fenced"
    THEN (IF InsideFence([i \in 1..Len(system) |-> system[i].position])
          THEN Ok([i \in 1..Len(system) |-> ZeroVec])
          ELSE Raise(FenceError))
    ELSE Ok([i \in 1..Len(system) |-> VScale(RNeg(One), system[i].velocity)])

\* n_steps = int(np.ceil(duration / dt))
NSteps(duration, dt) == CeilInt(RDiv(duration, dt))

\* np.zeros((n, n_bodies, 2))
Zeros(n, n_bodies) == [k \in 1..n |-> [i \in 1..n_bodies |-> ZeroVec]]

NegativeDimensions ==
    [type |-> "ValueError", msg |-> "negative dimensions are not allowed"]
IndexOutOfBounds ==
    [type |-> "IndexError", msg |-> "index 0 is out of bounds for axis 0 with size 0"]

----------------------------------------------------------------------------
(* The integration run as a state machine *)

VARIABLES
    heap,               \* every numpy array a Body holds, by address
    caller,             \* the SystemState the caller built and passes
    before,             \* what the caller's state held when it was built
    entry,              \* the function the caller called
    method, duration, dt, accel_fn, precession_config,    \* the arguments
    pc,                 \* where the run is
    arg_state,          \* the integrator's parameter `state`
    temp_state,         \* the integrator's working copy
    n_steps, step,
    positions, velocities,      \* the output arrays; snapshot k is element k + 1
    accel,              \* leapfrog's `accel`
    new_positions,      \* leapfrog's `new_positions`
    new_accel,          \* leapfrog's `new_accel`
    stages,             \* rk4's (k1_pos, k1_vel) .. (k4_pos, k4_vel), as assigned
    calls,              \* every invocation of acceleration_fn: what the working
                        \* state held, and what the function answered
    outcome,            \* what the call returned or raised
    \* the acceleration model called on its own
    phys_system,        \* the state passed, as its view
    phys_config,        \* the precession_config passed
    phys_gravity,       \* what compute_pairwise_gravity returned
    phys_result,        \* what compute_accelerations returned or raised
    \* the event detectors called on their own
    ev_times, ev_planet, ev_moon,       \* the sample times and position series
    ev_pericentres,     \* what detect_pericentre_passages returned
    ev_star,            \* the star's position series
    ev_threshold,       \* the angle_threshold passed to detect_alignments
    ev_alignments,      \* what detect_alignments returned
    ev_metrics          \* what summarise_metrics returned

RunVars ==
    <<heap, caller, before, entry, method, duration, dt, accel_fn, precession_config,
      pc, arg_state, temp_state, n_steps, step, positions, velocities, accel,
      new_positions, new_accel, stages, calls, outcome>>
PhysVars == <<phys_system, phys_config, phys_gravity, phys_result>>
EvVars ==
    <<ev_times, ev_planet, ev_moon, ev_pericentres, ev_star, ev_threshold, ev_alignments,
      ev_metrics>>

vars == <<RunVars, PhysVars, EvVars>>

\* Bounds of the model.
MaxBodies == 2
MaxSteps == 3

Unset == <<>>
Pending == [ok |-> FALSE, error |-> [type |-> "pending", msg |-> ""]]

\* The bodies a scenario may hold: name, mass, position, velocity, colour.
BodyPool ==
    { [name |-> "Star", mass |-> R(2), position |-> V(0, 0), velocity |-> V(0, 0),
       color |-> "yellow"],
      [name |-> "Planet", mass |-> R(1), position |-> V(2, 0), velocity |-> V(0, 1),
       color |-> "blue"],
      [name |-> "Moon", mass |-> R(1), position |-> V(3, 0), velocity |-> V(0, 1),
       color |-> "white"],
      [name |-> "Moon", mass |-> R(1), position |-> V(2, 0), velocity |-> V(0, 1),
       color |-> "grey"] }

\* Scenarios: up to MaxBodies bodies with distinct names, in any order.
Scenarios ==
    UNION { { sc \in [1..n -> BodyPool] :
                \A i, j \in 1..n : i # j => sc[i].name # sc[j].name } : n \in 0..MaxBodies }

\* The arguments a caller may pass.
Durations == {R(-1), Zero, Half, One, Frac(3, 2), R(3), R(4)}
StepSizes == {Half, One, R(2)}
Configs ==
    {CfgNone, CfgDict(<<>>), CfgDict([moon_precession_strength |-> Zero]),
     CfgDict([moon_precession_strength |-> One])}

\* Every upper/lower-case spelling of a name.
RECURSIVE Spellings(_, _)
Spellings(name, n) ==
    IF n = 0 THEN {<<>>}
    ELSE { Append(sp, c) : sp \in Spellings(name, n - 1),
                            c \in {name[n], UpperChar(name[n])} }

CaseSpellings(name) == Spellings(name, Len(name))

SomeMethods ==
    {NameLeapfrog, NameVerlet, <<"R", "K", "4">>, NameEuler, <<"E", "u", "l", "e", "r">>, <<>>}
AllMethods ==
    CaseSpellings(NameLeapfrog) \cup CaseSpellings(NameRk4) \cup CaseSpellings(NameVerlet)
        \cup CaseSpellings(NameEuler)

\* The calls explored: a few method names with every other argument, and
\* every spelling of every name with one choice of the other arguments.
\* compute_accelerations is explored where its result is a rational: on
\* scenarios whose bodies coincide, where gravity vanishes (the general
\* inverse-cube force is irrational, and is checked on its own below).
Coincide(sc) ==
    \A i, j \in 1..Len(sc) : sc[i].position = sc[j].position /\ sc[i].velocity = sc[j].velocity

Arguments(d, h, fn, cfg) ==
    /\ NSteps(d, h) <= MaxSteps
    /\ fn # "compute_accelerations" => cfg = CfgNone
    /\ fn = "compute_accelerations" => Coincide(before)

\* The run before any call, on the scenario `sc`.
RunInit(sc) ==
    /\ caller = [i \in 1..Len(sc) |->
                    MkBody(sc[i].name, sc[i].mass, 2 * i - 1, 2 * i, sc[i].color)]
    /\ heap = [a \in 1..(2 * Len(sc)) |->
                  IF a % 2 = 1 THEN sc[(a + 1) \div 2].position
                  ELSE sc[a \div 2].velocity]
    /\ before = sc
    /\ entry = "none"
    /\ method = Unset /\ duration = Zero /\ dt = One
    /\ accel_fn = "none" /\ precession_config = CfgNone
    /\ pc = "idle"
    /\ arg_state = Unset /\ temp_state = Unset
    /\ n_steps = 0 /\ step = 0
    /\ positions = Unset /\ velocities = Unset
    /\ accel = Unset /\ new_positions = Unset /\ new_accel = Unset
    /\ stages = Unset /\ calls = Unset
    /\ outcome = Pending

PhysOff ==
    /\ phys_system = Unset /\ phys_config = CfgNone
    /\ phys_gravity = Pending /\ phys_result = Pending

\* The alignment detector and the summary are not called.
AlignOff ==
    /\ ev_star = Unset /\ ev_threshold = Unset
    /\ ev_alignments = Pending /\ ev_metrics = Pending

EvOff ==
    /\ ev_times = Unset /\ ev_planet = Unset /\ ev_moon = Unset
    /\ ev_pericentres = Pending
    /\ AlignOff

Init == (\E sc \in Scenarios : RunInit(sc)) /\ PhysOff /\ EvOff

Locals == <<temp_state, n_steps, step, positions, velocities, accel, new_positions,
            new_accel, stages, calls>>
Beyond == <<PhysVars, EvVars>>

\* integrate(state, duration, dt, method, acceleration_fn, precession_config)
CallIntegrate(m, d, h, fn, cfg) ==
    /\ pc = "idle"
    /\ entry' = "integrate"
    /\ method' = m /\ duration' = d /\ dt' = h
    /\ accel_fn' = fn /\ precession_config' = cfg
    /\ LET integrator == SelectIntegrator(m)
           copy == StateCopy(caller, heap)
       IN  IF integrator.ok
           THEN /\ arg_state' = copy.bodies
                /\ heap' = copy.heap
                /\ pc' = integrator.val
                /\ UNCHANGED outcome
           ELSE /\ outcome' = integrator
                /\ pc' = "raised"
                /\ UNCHANGED <<arg_state, heap>>
    /\ UNCHANGED <<caller, before>>
    /\ UNCHANGED Locals
    /\ UNCHANGED Beyond

\* leapfrog(state, ...) or rk4(state, ...) called by the caller itself.
CallDirect(which, d, h, fn, cfg) ==
    /\ pc = "idle"
    /\ entry' = which
    /\ duration' = d /\ dt' = h
    /\ accel_fn' = fn /\ precession_config' = cfg
    /\ arg_state' = caller
    /\ pc' = which
    /\ UNCHANGED <<heap, caller, before, method, outcome>>
    /\ UNCHANGED Locals
    /\ UNCHANGED Beyond

\* Snapshot k (k = 0 is the initial condition) of an output array.
Snap(A, k) == A[k + 1]

\* What both integrators do first: n_steps, the two output arrays with
\* snapshot 0 filled in, and the working copy.
Prologue(state, h, d, hh) ==
    LET n == NSteps(d, hh)
        n_bodies == Len(state)
    IN  IF n + 1 < 0 THEN Raise(NegativeDimensions)
        ELSE IF ~StateHasRows(state) THEN Raise(StackError)
        ELSE IF n + 1 = 0 THEN Raise(IndexOutOfBounds)
        ELSE Ok([n_steps |-> n,
                 positions |-> [Zeros(n + 1, n_bodies) EXCEPT ![1] = StatePositions(state, h)],
                 velocities |-> [Zeros(n + 1, n_bodies) EXCEPT ![1] = StateVelocities(state, h)],
                 temp |-> StateCopy(state, h)])

\* One invocation of acceleration_fn on the working state, as logged.
Invocation(state, h, result) ==
    [positions |-> StatePositions(state, h), velocities |-> StateVelocities(state, h),
     result |-> result]

CallSwallowing(state, h) ==
    LET a == AccelerationFn(accel_fn, View(state, h), precession_config)
    IN  IF a.ok THEN a ELSE Ok([i \in 1..Len(state) |-> ZeroVec])

Call(state, h) == AccelerationFn(accel_fn, View(state, h), precession_config)

\* new_positions = positions[step - 1] + velocities[step - 1] * dt + 0.5 * accel * dt * dt
LeapfrogNewPositionsNoAccel(x, v, a, h) == AAdd(x, AScale(h, v))

LeapfrogNewPositions(x, v, a, h) ==
    AAdd(AAdd(x, AScale(h, v)), AScale(h, AScale(h, AScale(Half, a))))

\* new_velocities = velocities[step - 1] + 0.5 * (accel + new_accel) * dt
LeapfrogNewVelocitiesOldAccel(v, a, na, h) == AAdd(v, AScale(h, a))

LeapfrogNewVelocities(v, a, na, h) == AAdd(v, AScale(h, AScale(Half, AAdd(a, na))))

\* leapfrog, up to the loop: lines 22-32.
LeapfrogEntry ==
    /\ pc = "leapfrog"
    /\ LET pro == Prologue(arg_state, heap, duration, dt)
       IN  IF ~pro.ok
           THEN /\ outcome' = pro
                /\ pc' = "raised"
                /\ UNCHANGED <<heap, temp_state, n_steps, step, positions, velocities,
                               accel, calls>>
           ELSE LET temp == pro.val.temp
                    a == Call(temp.bodies, temp.heap)
                IN  /\ heap' = temp.heap
                    /\ temp_state' = temp.bodies
                    /\ n_steps' = pro.val.n_steps
                    /\ positions' = pro.val.positions
                    /\ velocities' = pro.val.velocities
                    /\ calls' = Append(calls, Invocation(temp.bodies, temp.heap, a))
                    /\ IF a.ok
                       THEN /\ accel' = a.val
                            /\ step' = 1
                            /\ pc' = "lf_loop"
                            /\ UNCHANGED outcome
                       ELSE /\ outcome' = a
                            /\ pc' = "raised"
                            /\ UNCHANGED <<accel, step>>
    /\ UNCHANGED <<caller, before, entry, method, duration, dt, accel_fn,
                   precession_config, arg_state, new_positions, new_accel, stages>>
    /\ UNCHANGED Beyond

\* The loop body, lines 34-35: the position update, written to the working state.
LeapfrogAdvanceUnwritten ==
    /\ pc = "lf_loop"
    /\ step <= n_steps
    /\ new_positions' = LeapfrogNewPositions(Snap(positions, step - 1),
                                             Snap(velocities, step - 1), accel, dt)
    /\ pc' = "lf_accel"
    /\ UNCHANGED <<heap, caller, before, entry, method, duration, dt, accel_fn,
                   precession_config, arg_state, temp_state, n_steps, step, positions,
                   velocities, accel, new_accel, stages, calls, outcome>>
    /\ UNCHANGED Beyond

LeapfrogAdvance ==
    /\ pc = "lf_loop"
    /\ step <= n_steps
    /\ new_positions' = LeapfrogNewPositions(Snap(positions, step - 1),
                                             Snap(velocities, step - 1), accel, dt)
    /\ heap' = StateUpdate(temp_state, heap, new_positions', Snap(velocities, step - 1))
    /\ pc' = "lf_accel"
    /\ UNCHANGED <<caller, before, entry, method, duration, dt, accel_fn,
                   precession_config, arg_state, temp_state, n_steps, step, positions,
                   velocities, accel, new_accel, stages, calls, outcome>>
    /\ UNCHANGED Beyond

\* Line 36: new_accel = acceleration_fn(temp_state, precession_config)
LeapfrogAccel ==
    /\ pc = "lf_accel"
    /\ LET a == Call(temp_state, heap)
       IN  /\ calls' = Append(calls, Invocation(temp_state, heap, a))
           /\ IF a.ok
              THEN /\ new_accel' = a.val
                   /\ pc' = "lf_vel"
                   /\ UNCHANGED outcome
              ELSE /\ outcome' = a
                   /\ pc' = "raised"
                   /\ UNCHANGED new_accel
    /\ UNCHANGED <<heap, caller, before, entry, method, duration, dt, accel_fn,
                   precession_config, arg_state, temp_state, n_steps, step, positions,
                   velocities, accel, new_positions, stages>>
    /\ UNCHANGED Beyond

\* Lines 37-41: the velocity update and the two stores.
LeapfrogFinish ==
    /\ pc = "lf_vel"
    /\ positions' = [positions EXCEPT ![step + 1] = new_positions]
    /\ velocities' = [velocities EXCEPT ![step + 1] =
                        LeapfrogNewVelocities(Snap(velocities, step - 1), accel, new_accel, dt)]
    /\ accel' = new_accel
    /\ step' = step + 1
    /\ pc' = "lf_loop"
    /\ UNCHANGED <<heap, caller, before, entry, method, duration, dt, accel_fn,
                   precession_config, arg_state, temp_state, n_steps, new_positions,
                   new_accel, stages, calls, outcome>>
    /\ UNCHANGED Beyond

\* rk4's stage s = 2..4 steps by c = 0.5 * dt, 0.5 * dt, dt from (pos, vel).
StageStep(s, h) == IF s = 4 THEN h ELSE RMul(Half, h)

\* The state a stage evaluates: pos + c * k_pos, vel + c * k_vel of the stage before.
StagePositions(x, c, k) == AAdd(x, AScale(c, k.pos))
StageVelocities(v, c, k) == AAdd(v, AScale(c, k.vel))

\* k2_pos = vel + 0.5 * dt * k1_vel, k3_pos = vel + 0.5 * dt * k2_vel,
\* k4_pos = vel + dt * k3_vel
StageKPosFromKPos(v, c, k) == AAdd(v, AScale(c, k.pos))

StageKPos(v, c, k) == AAdd(v, AScale(c, k.vel))

\* x + (dt / 6.0) * (k1 + 2 * k2 + 2 * k3 + k4)
Combine(x, h, k1, k2, k3, k4) ==
    AAdd(x, AScale(RDiv(h, R(6)),
                   AAdd(AAdd(AAdd(k1, AScale(R(2), k2)), AScale(R(2), k3)), k4)))

\* rk4, up to the loop: lines 55-63.
Rk4Entry ==
    /\ pc = "rk4"
    /\ LET pro == Prologue(arg_state, heap, duration, dt)
       IN  IF ~pro.ok
           THEN /\ outcome' = pro
                /\ pc' = "raised"
                /\ UNCHANGED <<heap, temp_state, n_steps, step, positions, velocities>>
           ELSE /\ heap' = pro.val.temp.heap
                /\ temp_state' = pro.val.temp.bodies
                /\ n_steps' = pro.val.n_steps
                /\ positions' = pro.val.positions
                /\ velocities' = pro.val.velocities
                /\ step' = 1
                /\ pc' = "rk4_loop"
                /\ UNCHANGED outcome
    /\ UNCHANGED <<caller, before, entry, method, duration, dt, accel_fn,
                   precession_config, arg_state, accel, new_positions, new_accel,
                   stages, calls>>
    /\ UNCHANGED Beyond

\* Lines 66-72: stage 1 evaluates the previous snapshot itself.
Rk4Stage1OnLeftover ==
    /\ pc = "rk4_loop"
    /\ step <= n_steps
    /\ LET a1 == Call(temp_state, heap)
       IN  /\ calls' = Append(calls, Invocation(temp_state, heap, a1))
           /\ IF a1.ok
              THEN /\ stages' = <<[pos |-> Snap(velocities, step - 1), vel |-> a1.val]>>
                   /\ pc' = "rk4_stage"
                   /\ UNCHANGED outcome
              ELSE /\ outcome' = a1
                   /\ pc' = "raised"
                   /\ UNCHANGED stages
    /\ UNCHANGED <<heap, caller, before, entry, method, duration, dt, accel_fn,
                   precession_config, arg_state, temp_state, n_steps, step, positions,
                   velocities, accel, new_positions, new_accel>>
    /\ UNCHANGED Beyond

Rk4Stage1 ==
    /\ pc = "rk4_loop"
    /\ step <= n_steps
    /\ LET pos == Snap(positions, step - 1)
           vel == Snap(velocities, step - 1)
           h1 == StateUpdate(temp_state, heap, pos, vel)
           a1 == Call(temp_state, h1)
       IN  /\ heap' = h1
           /\ calls' = Append(calls, Invocation(temp_state, h1, a1))
           /\ IF a1.ok
              THEN /\ stages' = <<[pos |-> vel, vel |-> a1.val]>>
                   /\ pc' = "rk4_stage"
                   /\ UNCHANGED outcome
              ELSE /\ outcome' = a1
                   /\ pc' = "raised"
                   /\ UNCHANGED stages
    /\ UNCHANGED <<caller, before, entry, method, duration, dt, accel_fn,
                   precession_config, arg_state, temp_state, n_steps, step, positions,
                   velocities, accel, new_positions, new_accel>>
    /\ UNCHANGED Beyond

\* Lines 74-77, 79-82 and 84-87: stages 2, 3 and 4.
Rk4Stage ==
    /\ pc = "rk4_stage"
    /\ LET s == Len(stages) + 1
           pos == Snap(positions, step - 1)
           vel == Snap(velocities, step - 1)
           c == StageStep(s, dt)
           k == stages[s - 1]
           h1 == StateUpdate(temp_state, heap, StagePositions(pos, c, k),
                             StageVelocities(vel, c, k))
           a == Call(temp_state, h1)
       IN  /\ heap' = h1
           /\ calls' = Append(calls, Invocation(temp_state, h1, a))
           /\ IF a.ok
              THEN /\ stages' = Append(stages, [pos |-> StageKPos(vel, c, k), vel |-> a.val])
                   /\ pc' = IF s = 4 THEN "rk4_sum" ELSE "rk4_stage"
                   /\ UNCHANGED outcome
              ELSE /\ outcome' = a
                   /\ pc' = "raised"
                   /\ UNCHANGED stages
    /\ UNCHANGED <<caller, before, entry, method, duration, dt, accel_fn,
                   precession_config, arg_state, temp_state, n_steps, step, positions,
                   velocities, accel, new_positions, new_accel>>
    /\ UNCHANGED Beyond

\* Lines 89-90: the weighted combination, stored as snapshot `step`.
Rk4Combine ==
    /\ pc = "rk4_sum"
    /\ positions' = [positions EXCEPT ![step + 1] =
                        Combine(Snap(positions, step - 1), dt, stages[1].pos, stages[2].pos,
                                stages[3].pos, stages[4].pos)]
    /\ velocities' = [velocities EXCEPT ![step + 1] =
                        Combine(Snap(velocities, step - 1), dt, stages[1].vel, stages[2].vel,
                                stages[3].vel, stages[4].vel)]
    /\ step' = step + 1
    /\ pc' = "rk4_loop"
    /\ UNCHANGED <<heap, caller, before, entry, method, duration, dt, accel_fn,
                   precession_config, arg_state, temp_state, n_steps, accel,
                   new_positions, new_accel, stages, calls, outcome>>
    /\ UNCHANGED Beyond

\* Line 43, and rk4's line 92: return positions, velocities
ReturnEarly ==
    /\ pc \in {"lf_loop", "rk4_loop"}
    /\ step >= n_steps
    /\ outcome' = Ok([positions |-> positions, velocities |-> velocities])
    /\ pc' = "returned"
    /\ UNCHANGED <<heap, caller, before, entry, method, duration, dt, accel_fn,
                   precession_config, arg_state, temp_state, n_steps, step, positions,
                   velocities, accel, new_positions, new_accel, stages, calls>>
    /\ UNCHANGED Beyond

Return ==
    /\ pc \in {"lf_loop", "rk4_loop"}
    /\ step > n_steps
    /\ outcome' = Ok([positions |-> positions, velocities |-> velocities])
    /\ pc' = "returned"
    /\ UNCHANGED <<heap, caller, before, entry, method, duration, dt, accel_fn,
                   precession_config, arg_state, temp_state, n_steps, step, positions,
                   velocities, accel, new_positions, new_accel, stages, calls>>
    /\ UNCHANGED Beyond

Next ==
    \/ /\ pc = "idle"
       /\ \E m \in SomeMethods, d \in Durations, h \in StepSizes,
             fn \in AccelerationFns, cfg \in Configs :
               Arguments(d, h, fn, cfg) /\ CallIntegrate(m, d, h, fn, cfg)
    \/ /\ pc = "idle"
       /\ \E m \in AllMethods : CallIntegrate(m, Frac(3, 2), One, "drag", CfgNone)
    \/ /\ pc = "idle"
       /\ \E which \in {"leapfrog", "rk4"}, d \in Durations, h \in StepSizes,
             fn \in AccelerationFns, cfg \in Configs :
               Arguments(d, h, fn, cfg) /\ CallDirect(which, d, h, fn, cfg)
    \/ LeapfrogEntry
    \/ LeapfrogAdvance
    \/ LeapfrogAccel
    \/ LeapfrogFinish
    \/ Rk4Entry
    \/ Rk4Stage1
    \/ Rk4Stage
    \/ Rk4Combine
    \/ Return

Spec == Init /\ [][Next]_vars

\* Where a call may be.
PcValues ==
    {"idle", "leapfrog", "lf_loop", "lf_accel", "lf_vel", "rk4", "rk4_loop", "rk4_stage",
     "rk4_sum", "returned", "raised"}

\* A call is in progress.
Started == pc \notin {"idle", "returned", "raised"}

\* The interpreter runs the statements of a call one after the other: while a
\* call is in progress, control moves on to another statement or another pass
\* of the loop.  (Of the statements of Next only stages 2 and 3 of rk4 leave
\* both pc and step as they are, and stage 4 follows them.)
ControlMoves ==
    /\ Started
    /\ pc' \in PcValues
    /\ step' \in 0..(MaxSteps + 2)

FairSpec == Init /\ [][Next]_vars /\ WF_<<pc, step>>(ControlMoves)

----------------------------------------------------------------------------
(* The integrators as functions of their arguments: what a call returns or
   raises, computed without the heap.  `system` is the view of the state
   passed. *)

\* The working state as acceleration_fn reads it after update(X, W).
WithState(system, X, W) ==
    [i \in 1..Len(system) |-> [system[i] EXCEPT !.position = X[i], !.velocity = W[i]]]

RECURSIVE LeapfrogLoop(_, _, _, _, _, _, _, _, _)
LeapfrogLoop(system, X, W, a, k, n, h, fn, cfg) ==
    IF k > n THEN Ok([positions |-> X, velocities |-> W])
    ELSE LET x1 == LeapfrogNewPositions(X[k], W[k], a, h)
             na == AccelerationFn(fn, WithState(system, x1, W[k]), cfg)
         IN  IF ~na.ok THEN na
             ELSE LeapfrogLoop(system, Append(X, x1),
                               Append(W, LeapfrogNewVelocities(W[k], a, na.val, h)),
                               na.val, k + 1, n, h, fn, cfg)

\* The shapes and snapshot 0, or the exception raised before the loop.
RunPrologue(system, d, h) ==
    IF NSteps(d, h) + 1 < 0 THEN Raise(NegativeDimensions)
    ELSE IF Len(system) = 0 THEN Raise(StackError)
    ELSE IF NSteps(d, h) + 1 = 0 THEN Raise(IndexOutOfBounds)
    ELSE Ok([positions |-> <<[i \in 1..Len(system) |-> system[i].position]>>,
             velocities |-> <<[i \in 1..Len(system) |-> system[i].velocity]>>])

\* leapfrog(state, duration, dt, acceleration_fn, precession_config)
LeapfrogRun(system, d, h, fn, cfg) ==
    LET pro == RunPrologue(system, d, h)
        a0 == AccelerationFn(fn, system, cfg)
    IN  IF ~pro.ok THEN pro
        ELSE IF ~a0.ok THEN a0
        ELSE LeapfrogLoop(system, pro.val.positions, pro.val.velocities, a0.val, 1,
                          NSteps(d, h), h, fn, cfg)

\* Stage s = 2..4 of one rk4 step from (x, v): the stages so far, extended.
RECURSIVE Rk4Stages(_, _, _, _, _, _, _)
Rk4Stages(system, x, v, ks, h, fn, cfg) ==
    IF Len(ks) = 4 THEN Ok(ks)
    ELSE LET s == Len(ks) + 1
             c == StageStep(s, h)
             k == ks[s - 1]
             a == AccelerationFn(fn, WithState(system, StagePositions(x, c, k),
                                               StageVelocities(v, c, k)), cfg)
         IN  IF ~a.ok THEN a
             ELSE Rk4Stages(system, x, v,
                            Append(ks, [pos |-> StageKPos(v, c, k), vel |-> a.val]),
                            h, fn, cfg)

RECURSIVE Rk4Loop(_, _, _, _, _, _, _, _)
Rk4Loop(system, X, W, k, n, h, fn, cfg) ==
    IF k > n THEN Ok([positions |-> X, velocities |-> W])
    ELSE LET a1 == AccelerationFn(fn, WithState(system, X[k], W[k]), cfg)
             ks == Rk4Stages(system, X[k], W[k], <<[pos |-> W[k], vel |-> a1.val]>>,
                             h, fn, cfg)
         IN  IF ~a1.ok THEN a1
             ELSE IF ~ks.ok THEN ks
             ELSE Rk4Loop(system,
                          Append(X, Combine(X[k], h, ks.val[1].pos, ks.val[2].pos,
                                            ks.val[3].pos, ks.val[4].pos)),
                          Append(W, Combine(W[k], h, ks.val[1].vel, ks.val[2].vel,
                                            ks.val[3].vel, ks.val[4].vel)),
                          k + 1, n, h, fn, cfg)

\* rk4(state, duration, dt, acceleration_fn, precession_config)
Rk4Run(system, d, h, fn, cfg) ==
    LET pro == RunPrologue(system, d, h)
    IN  IF ~pro.ok THEN pro
        ELSE Rk4Loop(system, pro.val.positions, pro.val.velocities, 1, NSteps(d, h),
                     h, fn, cfg)

----------------------------------------------------------------------------
(* Properties of the integration run *)

Ended == pc \in {"returned", "raised"}

\* The integrator the call runs: leapfrog, rk4, or none.
Integrator ==
    IF entry = "integrate"
    THEN (IF Lower(method) \in {NameLeapfrog, NameVerlet} THEN "leapfrog"
          ELSE IF Lower(method) = NameRk4 THEN "rk4" ELSE "none")
    ELSE entry

\* The working copy holds something else than the caller's state.
WorkingStateOverwritten ==
    /\ temp_state # Unset
    /\ StatePositions(temp_state, heap) # [i \in 1..Len(before) |-> before[i].position]

\* C1: when integrate (or an integrator called directly) has returned or
\* raised, the caller's SystemState holds the same bodies in the same order,
\* each with the name, mass, position and velocity it had before the call.
C1_CallerStateUnchanged == Ended => View(caller, heap) = before

C1_Witness ==
    /\ pc = "returned" /\ entry = "integrate" /\ n_steps >= 2
    /\ WorkingStateOverwritten

\* The least n >= 0 with n * dt >= duration: ceil(duration / dt) for
\* duration >= 0 and dt > 0.
StepsNeeded ==
    CHOOSE n \in 0..(MaxSteps + 1) :
        /\ RLe(duration, RMul(R(n), dt))
        /\ n > 0 => RLt(RMul(R(n - 1), dt), duration)

NoCallFailed == \A k \in 1..Len(calls) : calls[k].result.ok

\* What C2 promises of a run that has ended: it returned, both arrays hold
\* ceil(duration / dt) + 1 snapshots of as many rows as the state has bodies,
\* and snapshot 0 holds the initial positions and velocities.
ReturnedFullTrajectory ==
    /\ pc = "returned"
    /\ outcome.ok
    /\ Len(outcome.val.positions) = StepsNeeded + 1
    /\ Len(outcome.val.velocities) = StepsNeeded + 1
    /\ \A k \in 1..(StepsNeeded + 1) :
         /\ Len(outcome.val.positions[k]) = Len(before)
         /\ Len(outcome.val.velocities[k]) = Len(before)
    /\ Snap(outcome.val.positions, 0) = [i \in 1..Len(before) |-> before[i].position]
    /\ Snap(outcome.val.velocities, 0) = [i \in 1..Len(before) |-> before[i].velocity]

\* C2: for a state of N bodies, duration >= 0 and dt > 0, leapfrog and rk4
\* (whose acceleration function raises nothing) return arrays of
\* ceil(duration / dt) + 1 snapshots of N bodies, snapshot 0 being the initial
\* positions and velocities.
C2_SnapshotCount ==
    (/\ Ended /\ Integrator \in {"leapfrog", "rk4"}
     /\ RLe(Zero, duration) /\ RLt(Zero, dt)
     /\ NoCallFailed) => ReturnedFullTrajectory

\* The same for a state that holds at least one body, which is what the code
\* does: SystemState.positions stacks the bodies' arrays, and np.stack raises
\* ValueError when there is none.
C2_SnapshotCountOfNonEmptyState ==
    (/\ Ended /\ Integrator \in {"leapfrog", "rk4"}
     /\ RLe(Zero, duration) /\ RLt(Zero, dt)
     /\ NoCallFailed
     /\ Len(before) > 0) => ReturnedFullTrajectory

C2_EmptyStateRaises ==
    (/\ Ended /\ Integrator \in {"leapfrog", "rk4"}
     /\ RLe(Zero, duration)
     /\ Len(before) = 0) => (pc = "raised" /\ outcome = Raise(StackError))

\* `needle` occurs in `text`.
Contains(text, needle) ==
    \E i \in 0..(Len(text) - Len(needle)) :
        \A j \in 1..Len(needle) : text[i + j] = needle[j]

Recognized(m) ==
    m \in CaseSpellings(NameLeapfrog) \cup CaseSpellings(NameVerlet) \cup CaseSpellings(NameRk4)

\* C3: integrate with a method name that is no integrator's name raises
\* ValueError with the name in its message, returns no arrays and starts no
\* integrator: no working copy is made, no array allocated, the acceleration
\* function never invoked.
C3_UnknownMethodRaises ==
    (entry = "integrate" /\ ~Recognized(method)) =>
        /\ pc = "raised"
        /\ ~outcome.ok
        /\ outcome.error.type = "ValueError"
        /\ Contains(outcome.error.msg, method)
        /\ calls = Unset /\ temp_state = Unset /\ arg_state = Unset
        /\ positions = Unset /\ velocities = Unset

C3_Witness ==
    /\ pc = "raised" /\ entry = "integrate"
    /\ method = <<"E", "u", "l", "e", "r">>
    /\ Len(caller) > 0

\* The acceleration the k-th invocation returned, k = 0 the call before the loop.
AccelAt(k) == calls[k + 1].result.val

\* x + v*h + a*h^2/2 and v + (a + b)*h/2, on one number.
VerletPosition(x, v, a, h) == RAdd(x, RAdd(RMul(v, h), RMul(RMul(RMul(h, h), Half), a)))
VerletVelocity(v, a, b, h) == RAdd(v, RMul(RMul(Half, h), RAdd(a, b)))

\* C5: each completed leapfrog step k is the velocity-Verlet step:
\* position[k] from position[k-1], velocity[k-1] and a[k-1]; a[k] evaluated on
\* the working state holding position[k] and velocity[k-1]; velocity[k] from
\* the mean of a[k-1] and a[k]; and a[k-1] is the value returned by the one
\* invocation of step k-1 (k+1 invocations after k steps).
C5_VelocityVerlet ==
    (Integrator = "leapfrog" /\ pc \in {"lf_loop", "returned"}) =>
        /\ Len(calls) = step
        /\ calls[1].positions = Snap(positions, 0)
        /\ calls[1].velocities = Snap(velocities, 0)
        /\ \A k \in 1..(step - 1) :
            /\ calls[k + 1].positions = Snap(positions, k)
            /\ calls[k + 1].velocities = Snap(velocities, k - 1)
            /\ \A i \in 1..Len(caller) : \A c \in 1..2 :
                /\ Snap(positions, k)[i][c] =
                     VerletPosition(Snap(positions, k - 1)[i][c],
                                    Snap(velocities, k - 1)[i][c], AccelAt(k - 1)[i][c], dt)
                /\ Snap(velocities, k)[i][c] =
                     VerletVelocity(Snap(velocities, k - 1)[i][c], AccelAt(k - 1)[i][c],
                                    AccelAt(k)[i][c], dt)

C5_Witness ==
    /\ pc = "returned" /\ Integrator = "leapfrog" /\ n_steps >= 2
    /\ accel_fn = "drag"
    /\ Snap(velocities, 2) # Snap(velocities, 0)

\* C4: integrate with any upper/lower-case spelling of "leapfrog" or "rk4"
\* ends as the integrator of that name does when called directly with the
\* same state, duration, dt, acceleration function and configuration: the
\* same positions and velocities, or the same exception.
C4_DispatchIgnoresCase ==
    /\ (Ended /\ entry = "integrate" /\ method \in CaseSpellings(NameLeapfrog)) =>
          outcome = LeapfrogRun(before, duration, dt, accel_fn, precession_config)
    /\ (Ended /\ entry = "integrate" /\ method \in CaseSpellings(NameRk4)) =>
          outcome = Rk4Run(before, duration, dt, accel_fn, precession_config)
    /\ (Ended /\ entry = "leapfrog") =>
          outcome = LeapfrogRun(before, duration, dt, accel_fn, precession_config)
    /\ (Ended /\ entry = "rk4") =>
          outcome = Rk4Run(before, duration, dt, accel_fn, precession_config)

C4_Witness ==
    /\ pc = "returned" /\ entry = "integrate"
    /\ method = <<"L", "e", "a", "p", "F", "r", "o", "g">>
    /\ n_steps = 2 /\ Len(caller) = 2

\* The four invocations of rk4's step j, and the state it started from.
StageCall(j, s) == calls[4 * (j - 1) + s]
KPos(j, s) == StageCall(j, s).velocities
KVel(j, s) == StageCall(j, s).result.val

\* x + h/6 * (k1 + 2*k2 + 2*k3 + k4), on one number.
Simpson(x, h, k1, k2, k3, k4) ==
    RAdd(x, RMul(RDiv(h, R(6)),
                 RAdd(RAdd(k1, k4), RMul(R(2), RAdd(k2, k3)))))

\* C6: each completed rk4 step j is the classic Runge-Kutta step of
\* (x' = v, v' = a): stage 1 evaluates (x, v), stages 2 and 3 evaluate
\* (x, v) + dt/2 * (derivative of the stage before), stage 4 evaluates
\* (x, v) + dt * (derivative of stage 3), where a stage's position derivative
\* is the velocity written into the working state for its evaluation; and
\* the new position and velocity are the old ones plus dt/6 times
\* k1 + 2*k2 + 2*k3 + k4 of those derivatives.
C6_ClassicRungeKutta ==
    (Integrator = "rk4" /\ pc \in {"rk4_loop", "returned"}) =>
        /\ Len(calls) = 4 * (step - 1)
        /\ \A j \in 1..(step - 1) : \A i \in 1..Len(caller) : \A c \in 1..2 :
            LET x == Snap(positions, j - 1)[i][c]
                v == Snap(velocities, j - 1)[i][c]
                kx(s) == KPos(j, s)[i][c]
                kv(s) == KVel(j, s)[i][c]
                at(s) == StageCall(j, s).positions[i][c]
                hs(s) == IF s = 4 THEN dt ELSE RMul(dt, Half)
            IN  /\ at(1) = x /\ kx(1) = v
                /\ \A s \in 2..4 :
                     /\ at(s) = RAdd(x, RMul(hs(s), kx(s - 1)))
                     /\ kx(s) = RAdd(v, RMul(hs(s), kv(s - 1)))
                /\ Snap(positions, j)[i][c] = Simpson(x, dt, kx(1), kx(2), kx(3), kx(4))
                /\ Snap(velocities, j)[i][c] = Simpson(v, dt, kv(1), kv(2), kv(3), kv(4))

C6_Witness ==
    /\ pc = "returned" /\ Integrator = "rk4" /\ n_steps >= 2
    /\ accel_fn = "drag"
    /\ Snap(positions, 2) # Snap(positions, 0)

\* The acceleration function reads the positions only.
PositionOnly == accel_fn \in {"harmonic", "fenced", "compute_accelerations"}

Last(q) == q[Len(q)]

\* The run that starts where this one ended, every velocity negated.
ReversedRun ==
    LeapfrogRun(WithState(before, outcome.val.positions[n_steps + 1],
                          AScale(RNeg(One), outcome.val.velocities[n_steps + 1])),
                duration, dt, accel_fn, precession_config)

\* C15: when leapfrog has run N steps from (x0, v0) with an acceleration
\* function of the positions only, the leapfrog run of N more steps with the
\* same dt from the final positions and the negated final velocities ends at
\* the positions x0 with the velocities -v0.
C15_LeapfrogTimeReversible ==
    (pc = "returned" /\ Integrator = "leapfrog" /\ PositionOnly) =>
        LET back == ReversedRun
        IN  /\ back.ok
            /\ Len(back.val.positions) = n_steps + 1
            /\ back.val.positions[n_steps + 1] = [i \in 1..Len(before) |-> before[i].position]
            /\ back.val.velocities[n_steps + 1] =
                   AScale(RNeg(One), [i \in 1..Len(before) |-> before[i].velocity])

C15_Witness ==
    /\ pc = "returned" /\ Integrator = "leapfrog" /\ accel_fn = "harmonic"
    /\ n_steps >= 2
    /\ Last(outcome.val.positions) # [i \in 1..Len(before) |-> before[i].position]
    /\ Last(outcome.val.velocities) # [i \in 1..Len(before) |-> before[i].velocity]

\* A run that ended with nothing raised by its arguments or its acceleration
\* function returned, after ceil(duration / dt) passes of the loop.
RunCompleted ==
    (Ended /\ Integrator # "none" /\ Len(before) > 0 /\ RLe(Zero, duration) /\ NoCallFailed) =>
        /\ pc = "returned"
        /\ n_steps = StepsNeeded
        /\ step = n_steps + 1
        /\ Len(outcome.val.positions) = n_steps + 1
        /\ Len(outcome.val.velocities) = n_steps + 1

AnswerAt(k) ==
    AccelerationFn(accel_fn, WithState(before, calls[k].positions, calls[k].velocities),
                   precession_config)

\* The configuration asks for the precession and the state lacks a body it needs.
PrecessionMisconfigured ==
    /\ accel_fn = "compute_accelerations"
    /\ ~precession_config.is_none
    /\ StrengthKey \in DOMAIN precession_config.items
    /\ precession_config.items[StrengthKey] # Zero
    /\ \/ \A i \in 1..Len(before) : before[i].name # "Planet"
       \/ \A i \in 1..Len(before) : before[i].name # "Moon"

\* C18: when the acceleration function fails on the state an invocation gives
\* it, the call ends there by raising that very error, and returns no arrays:
\* no later invocation is made, whichever integrator runs and whichever step
\* the failure occurs in; a precession asked for without "Planet" and "Moon"
\* surfaces as its ValueError from the first invocation made.
C18_AccelerationFailureAborts ==
    /\ \A k \in 1..Len(calls) :
         LET answer == AnswerAt(k)
         IN  /\ calls[k].result = answer
             /\ ~answer.ok =>
                  /\ k = Len(calls)
                  /\ pc = "raised"
                  /\ outcome = answer
    /\ pc = "returned" => outcome.ok /\ NoCallFailed
    /\ (Ended /\ Len(calls) > 0 /\ PrecessionMisconfigured) =>
             /\ pc = "raised"
             /\ outcome = Raise(PrecessionError)
             /\ Len(calls) = 1

\* The field failed in the second step of rk4, called through integrate.
C18_Witness ==
    /\ pc = "raised" /\ entry = "integrate" /\ Integrator = "rk4"
    /\ accel_fn = "fenced"
    /\ Len(calls) > 4
    /\ outcome = Raise(FenceError)

\* C19: leapfrog invokes the acceleration function once on the initial state
\* before the first step and once in each step, on the working state that
\* holds the step's new positions and the velocities of the step before, the
\* step's velocities not yet stored: n + 1 invocations for a run of n steps.
C19_LeapfrogOneCallPerStep ==
    (Integrator = "leapfrog" /\ Len(calls) > 0) =>
        /\ calls[1].positions = [i \in 1..Len(before) |-> before[i].position]
        /\ calls[1].velocities = [i \in 1..Len(before) |-> before[i].velocity]
        /\ pc = "lf_loop" => Len(calls) = step
        /\ pc = "lf_accel" =>
             /\ Len(calls) = step
             /\ StatePositions(temp_state, heap) = new_positions
             /\ StateVelocities(temp_state, heap) = Snap(velocities, step - 1)
        /\ pc = "lf_vel" =>
             /\ Len(calls) = step + 1
             /\ calls[step + 1].positions = new_positions
             /\ calls[step + 1].velocities = Snap(velocities, step - 1)
             /\ Snap(velocities, step) = [i \in 1..Len(before) |-> ZeroVec]
        /\ pc = "returned" =>
             /\ Len(calls) = n_steps + 1
             /\ \A k \in 1..n_steps :
                  /\ calls[k + 1].positions = Snap(positions, k)
                  /\ calls[k + 1].velocities = Snap(velocities, k - 1)

C19_Witness ==
    /\ pc = "returned" /\ Integrator = "leapfrog"
    /\ n_steps = MaxSteps
    /\ accel_fn = "harmonic"
    /\ Len(calls) = MaxSteps + 1
    /\ calls[3].positions # calls[2].positions

\* The step and the stage of the k-th invocation of rk4.
StepOf(k) == ((k - 1) \div 4) + 1
StageOf(k) == ((k - 1) % 4) + 1

\* C20: rk4 invokes the acceleration function four times in each step, in
\* stage order, 4n times for a run of n steps; each invocation sees the
\* working state overwritten for its stage: the previous snapshot for stage
\* 1, and for stages 2, 3, 4 the previous snapshot advanced by dt/2, dt/2, dt
\* along the velocity and the acceleration of the stage before.
C20_Rk4FourCallsPerStep ==
    (Integrator = "rk4" /\ pc \notin {"idle", "rk4"}) =>
        /\ pc = "rk4_loop" => Len(calls) = 4 * (step - 1)
        /\ pc = "rk4_stage" => Len(stages) \in 1..3 /\ Len(calls) = 4 * (step - 1) + Len(stages)
        /\ pc = "rk4_sum" => Len(calls) = 4 * step
        /\ pc = "returned" => Len(calls) = 4 * n_steps /\ step = n_steps + 1
        /\ \A k \in 1..Len(calls) :
             LET x == Snap(positions, StepOf(k) - 1)
                 v == Snap(velocities, StepOf(k) - 1)
                 h == IF StageOf(k) = 4 THEN dt ELSE RMul(dt, Half)
             IN  /\ StageOf(k) = 1 => calls[k].positions = x /\ calls[k].velocities = v
                 /\ StageOf(k) > 1 =>
                      \A i \in 1..Len(before) : \A c \in 1..2 :
                          /\ calls[k].positions[i][c] =
                                 RAdd(x[i][c], RMul(h, calls[k - 1].velocities[i][c]))
                          /\ calls[k].velocities[i][c] =
                                 RAdd(v[i][c], RMul(h, calls[k - 1].result.val[i][c]))

C20_Witness ==
    /\ pc = "returned" /\ Integrator = "rk4"
    /\ n_steps = MaxSteps
    /\ accel_fn = "harmonic"
    /\ Len(calls) = 4 * MaxSteps
    /\ calls[5].positions # calls[4].positions

----------------------------------------------------------------------------
(* The acceleration model called on its own *)

\* Bound of the systems explored.
MaxSystem == 3

\* Bodies at the corners of a 3 x 4 rectangle: every separation is 0, 3, 4
\* or 5, so every inverse-cube force is a rational and is computed exactly.
Corners == {V(0, 0), V(3, 0), V(0, 4), V(3, 4)}

SystemBodies ==
    { [name |-> nm, mass |-> m, position |-> x, velocity |-> ZeroVec, color |-> "white"] :
        nm \in {"Star", "Planet", "Moon"}, m \in {R(1), R(2)}, x \in Corners }

Systems ==
    UNION { { sys \in [1..n -> SystemBodies] :
                /\ \A i, j \in 1..n : i # j => sys[i].name # sys[j].name
                /\ \A i \in 1..n : sys[i].name # "Star" => sys[i].mass = R(1) }
            : n \in 0..MaxSystem }

SystemConfigs ==
    Configs \cup {CfgDict([moon_precession_strength |-> R(-2)]),
                  CfgDict([moon_precession_strength |-> Half]),
                  CfgDict([other |-> One])}

PhysInit ==
    /\ phys_system \in Systems
    /\ phys_config \in SystemConfigs
    /\ phys_gravity = Pending /\ phys_result = Pending

\* compute_pairwise_gravity(system.positions, system.masses); the stacked
\* arrays exist for a system with a body only.
ApplyGravity ==
    /\ phys_gravity = Pending
    /\ Len(phys_system) > 0
    /\ phys_gravity' = Ok(ComputePairwiseGravity(
                            [i \in 1..Len(phys_system) |-> phys_system[i].position],
                            [i \in 1..Len(phys_system) |-> phys_system[i].mass]))
    /\ UNCHANGED <<phys_system, phys_config, phys_result>>
    /\ UNCHANGED <<RunVars, EvVars>>

\* compute_accelerations(system, precession_config)
ApplyAccelerations ==
    /\ phys_result = Pending
    /\ phys_result' = ComputeAccelerations(phys_system, phys_config)
    /\ UNCHANGED <<phys_system, phys_config, phys_gravity>>
    /\ UNCHANGED <<RunVars, EvVars>>

AccelNext == ApplyGravity \/ ApplyAccelerations

AccelInit == RunInit(<<>>) /\ PhysInit /\ EvOff

AccelSpec == AccelInit /\ [][AccelNext]_vars

PhysPositions == [i \in 1..Len(phys_system) |-> phys_system[i].position]
PhysMasses == [i \in 1..Len(phys_system) |-> phys_system[i].mass]
HasBody(name) == \E i \in 1..Len(phys_system) : phys_system[i].name = name
PositionOf(name) ==
    phys_system[CHOOSE i \in 1..Len(phys_system) : phys_system[i].name = name].position

\* A nonzero moon precession strength is configured.
StrengthConfigured ==
    /\ ~phys_config.is_none
    /\ StrengthKey \in DOMAIN phys_config.items
    /\ phys_config.items[StrengthKey] # Zero

\* C7: a pair at zero separation (a body with itself, or two bodies at one
\* place) contributes the zero vector, a number and not NaN; so the
\* acceleration of a body is the sum over the bodies elsewhere, and that of
\* a single isolated body is zero whatever its position and mass.
C7_ZeroSeparationContributesZero ==
    phys_gravity # Pending =>
        /\ phys_gravity.ok
        /\ \A i, j \in 1..Len(phys_system) :
             PhysPositions[i] = PhysPositions[j] =>
                 PairForce(PhysPositions, PhysMasses, i, j) = ZeroVec
        /\ \A i \in 1..Len(phys_system) : \A c \in 1..2 : IsFinite(phys_gravity.val[i][c])
        /\ Len(phys_system) = 1 => phys_gravity.val = <<ZeroVec>>
        /\ (\A i, j \in 1..Len(phys_system) : PhysPositions[i] = PhysPositions[j]) =>
               \A i \in 1..Len(phys_system) : phys_gravity.val[i] = ZeroVec

C7_Witness ==
    /\ phys_gravity # Pending
    /\ Len(phys_system) = 1
    /\ phys_system[1].position = V(3, 4) /\ phys_system[1].mass = R(2)

\* C8: with a nonzero moon precession strength configured and no body named
\* "Planet" or no body named "Moon", compute_accelerations raises ValueError
\* (the configuration error, for a state that holds a body) and returns no
\* accelerations.
C8_PrecessionNeedsPlanetAndMoon ==
    (phys_result # Pending /\ StrengthConfigured /\ (~HasBody("Planet") \/ ~HasBody("Moon"))) =>
        /\ ~phys_result.ok
        /\ phys_result.error.type = "ValueError"
        /\ Len(phys_system) > 0 => phys_result.error = PrecessionError

C8_Witness ==
    /\ phys_result # Pending /\ StrengthConfigured
    /\ HasBody("Planet") /\ HasBody("Star") /\ ~HasBody("Moon")
    /\ ~phys_result.ok

\* C9: with a nonzero moon precession strength configured and the bodies
\* named "Planet" and "Moon" at one position, compute_accelerations raises
\* nothing and returns the pairwise-gravity accelerations unchanged.
C9_DegenerateSeparationSkipsPrecession ==
    (/\ phys_result # Pending /\ StrengthConfigured
     /\ HasBody("Planet") /\ HasBody("Moon")
     /\ PositionOf("Planet") = PositionOf("Moon")) =>
        /\ phys_result.ok
        /\ phys_result.val = ComputePairwiseGravity(PhysPositions, PhysMasses)

C9_Witness ==
    /\ phys_result # Pending /\ StrengthConfigured
    /\ Len(phys_system) = 3
    /\ HasBody("Planet") /\ HasBody("Moon")
    /\ PositionOf("Planet") = PositionOf("Moon")
    /\ PositionOf("Star") # PositionOf("Moon")
    /\ phys_result.ok

\* The index of the body of that name, and what compute_accelerations added
\* to the pairwise gravity of body i.
IndexOf(name) == CHOOSE i \in 1..Len(phys_system) : phys_system[i].name = name
Added(i) ==
    LET gravity == ComputePairwiseGravity(PhysPositions, PhysMasses)
    IN  <<RSub(phys_result.val[i][1], gravity[i][1]), RSub(phys_result.val[i][2], gravity[i][2])>>

----------------------------------------------------------------------------
(* Event detection: core/events.py *)

\* radial_distances = np.linalg.norm(moon_positions - planet_positions, axis=1)
RadialDistances(moon_positions, planet_positions) ==
    [i \in 1..Len(moon_positions) |-> VNorm(VSub(moon_positions[i], planet_positions[i]))]

\* The test of line 26 at sample i (1-based here, i - 1 in the code).
IsPericentreOrPlateau(r, i) == RLe(r[i], r[i - 1]) /\ RLe(r[i], r[i + 1])

IsPericentre(r, i) == RLt(r[i], r[i - 1]) /\ RLt(r[i], r[i + 1])

\* for i in range(1, len(radial_distances) - 1): the samples 2 .. Len - 1.
RECURSIVE PericentreLoop(_, _, _, _)
PericentreLoop(times, r, i, pericentre_times) ==
    IF i > Len(r) - 1 THEN pericentre_times
    ELSE PericentreLoop(times, r, i + 1,
                        IF IsPericentre(r, i) THEN Append(pericentre_times, times[i])
                        ELSE pericentre_times)

\* detect_pericentre_passages(times, moon_positions, planet_positions)
DetectPericentrePassages(times, moon_positions, planet_positions) ==
    PericentreLoop(times, RadialDistances(moon_positions, planet_positions), 2, <<>>)

\* Bound of the series explored.
MaxSamples == 4

\* Where the moon may be, seen from the planet: at distance 0, 3, 4, 5 or 5.
Offsets == {V(0, 0), V(3, 0), V(0, 4), V(3, 4), V(5, 0)}

\* The distance series 5, 4, 3, 4, 5, 4, 3, 4, 5.
ExampleOffsets ==
    <<V(5, 0), V(0, 4), V(3, 0), V(0, 4), V(3, 4), V(0, 4), V(3, 0), V(0, 4), V(5, 0)>>

OffsetSeries == UNION { [1..n -> Offsets] : n \in 0..MaxSamples } \cup {ExampleOffsets}

\* The planet at rest at the origin, or moving.
PlanetTracks(n) == { [i \in 1..n |-> V(0, 0)], [i \in 1..n |-> V(i, 1)] }

\* Sample times: increasing, in steps of 1 from 0 or of 1/2 from 1/2.
TimeGrids(n) == { [i \in 1..n |-> R(i - 1)], [i \in 1..n |-> Frac(i, 2)] }

EvInit ==
    /\ \E offs \in OffsetSeries :
         /\ ev_planet \in PlanetTracks(Len(offs))
         /\ ev_times \in TimeGrids(Len(offs))
         /\ ev_moon = [i \in 1..Len(offs) |-> VAdd(ev_planet[i], offs[i])]
    /\ ev_pericentres = Pending
    /\ AlignOff

DetectPericentres ==
    /\ ev_pericentres = Pending
    /\ ev_pericentres' = Ok(DetectPericentrePassages(ev_times, ev_moon, ev_planet))
    /\ UNCHANGED <<ev_times, ev_planet, ev_moon>>
    /\ UNCHANGED <<ev_star, ev_threshold, ev_alignments, ev_metrics>>
    /\ UNCHANGED <<RunVars, PhysVars>>

EventInit == RunInit(<<>>) /\ PhysOff /\ EvInit

EventNext == DetectPericentres

EventSpec == EventInit /\ [][EventNext]_vars

\* The squared moon-planet distance at sample i.
DistanceSq(i) == VDot(VSub(ev_moon[i], ev_planet[i]), VSub(ev_moon[i], ev_planet[i]))

\* Sample i is nearer than both its neighbours.
LocalMinimum(i) ==
    /\ 1 < i /\ i < Len(ev_moon)
    /\ RLt(DistanceSq(i), DistanceSq(i - 1))
    /\ RLt(DistanceSq(i), DistanceSq(i + 1))

Flagged(i) == \E k \in 1..Len(ev_pericentres.val) : ev_pericentres.val[k] = ev_times[i]

\* The series is the example: distances 5, 4, 3, 4, 5, 4, 3, 4, 5.
IsExample ==
    /\ Len(ev_moon) = Len(ExampleOffsets)
    /\ \A i \in 1..Len(ev_moon) : VSub(ev_moon[i], ev_planet[i]) = ExampleOffsets[i]

\* C10: detect_pericentre_passages returns, in increasing order and once
\* each, the times of exactly the samples that are interior and strictly
\* nearer than both neighbours; a sample with an equal neighbour is not
\* flagged, and the series 5, 4, 3, 4, 5, 4, 3, 4, 5 flags samples 2 and 6
\* (counted from 0).
C10_PericentresAreStrictLocalMinima ==
    ev_pericentres # Pending =>
        /\ \A i \in 1..Len(ev_times) : Flagged(i) <=> LocalMinimum(i)
        /\ \A k \in 1..Len(ev_pericentres.val) :
             /\ \E i \in 1..Len(ev_times) : ev_pericentres.val[k] = ev_times[i]
             /\ k > 1 => RLt(ev_pericentres.val[k - 1], ev_pericentres.val[k])
        /\ \A i \in 2..(Len(ev_times) - 1) :
             (DistanceSq(i) = DistanceSq(i - 1) \/ DistanceSq(i) = DistanceSq(i + 1)) =>
                 ~Flagged(i)
        /\ IsExample => ev_pericentres.val = <<ev_times[3], ev_times[7]>>

C10_Witness ==
    /\ ev_pericentres # Pending
    /\ IsExample
    /\ Len(ev_pericentres.val) = 2

----------------------------------------------------------------------------
(* Alignment detection and the metrics summary: core/events.py *)

\* np.clip(x, lo, hi)
Clip(x, lo, hi) == IF RLt(x, lo) THEN lo ELSE IF RLt(hi, x) THEN hi ELSE x

\* np.arccos(c): an angle of [0, pi], held by its cosine.  arccos decreases,
\* so of two angles the one of the greater cosine is the smaller.
ArcCos(c) == [cos |-> c]

AngleLt(a, b) == RLt(b.cos, a.cos)

\* angle <= angle_threshold
AngleLe(a, b) == RLe(b.cos, a.cos)

\* np.deg2rad(1.5): cos(1.5 degrees) = 0.99965..., held as 0.9996.  No cosine
\* of the series explored lies between 0.9996 and 1.
DefaultThreshold == ArcCos(Frac(9996, 10000))

\* if sp_norm == 0.0 or pm_norm == 0.0: continue
IsSkipped(sp_norm, pm_norm) == REq(sp_norm, Zero) \/ REq(pm_norm, Zero)

\* Lines 48-50: the angle between the two vectors.
AlignmentAngleOfLines(sp_vector, pm_vector) ==
    LET cos_angle == RDiv(VDot(sp_vector, pm_vector),
                          RMul(VNorm(sp_vector), VNorm(pm_vector)))
    IN  ArcCos(Clip(IF RLt(cos_angle, Zero) THEN RNeg(cos_angle) ELSE cos_angle,
                    RNeg(One), One))

AlignmentAngle(sp_vector, pm_vector) ==
    ArcCos(Clip(RDiv(VDot(sp_vector, pm_vector), RMul(VNorm(sp_vector), VNorm(pm_vector))),
                RNeg(One), One))

\* The body of the loop at one sample: is its time appended?
IsAligned(star, planet, moon, angle_threshold) ==
    LET sp_vector == VSub(planet, star)
        pm_vector == VSub(moon, planet)
    IN  IF IsSkipped(VNorm(sp_vector), VNorm(pm_vector)) THEN FALSE
        ELSE AngleLe(AlignmentAngle(sp_vector, pm_vector), angle_threshold)

\* for idx in range(len(times)): the samples 1 .. Len(times).
RECURSIVE AlignmentLoop(_, _, _, _, _, _, _)
AlignmentLoop(times, star_positions, planet_positions, moon_positions, angle_threshold, idx, alignments) ==
    IF idx > Len(times) THEN alignments
    ELSE AlignmentLoop(times, star_positions, planet_positions, moon_positions,
                       angle_threshold, idx + 1,
                       IF IsAligned(star_positions[idx], planet_positions[idx],
                                    moon_positions[idx], angle_threshold)
                       THEN Append(alignments, times[idx])
                       ELSE alignments)

\* detect_alignments(times, star_positions, planet_positions, moon_positions, angle_threshold)
DetectAlignments(times, star_positions, planet_positions, moon_positions, angle_threshold) ==
    AlignmentLoop(times, star_positions, planet_positions, moon_positions, angle_threshold,
                  1, <<>>)

\* np.searchsorted(a, v): the binary search for the leftmost place of v in a,
\* counted from 0.
RECURSIVE SearchSortedIn(_, _, _, _)
SearchSortedIn(a, v, lo, hi) ==
    IF lo >= hi THEN lo
    ELSE LET mid == lo + ((hi - lo) \div 2)
         IN  IF RLt(a[mid + 1], v) THEN SearchSortedIn(a, v, mid + 1, hi)
             ELSE SearchSortedIn(a, v, lo, mid)

SearchSorted(a, v) == SearchSortedIn(a, v, 0, Len(a))

Lesser(a, b) == IF a < b THEN a ELSE b

\* max(0, next_pericentre_count - last_pericentre_count)
Max(a, b) == IF a > b THEN a ELSE b

\* mean_orbits_between_alignments: None, or a number.
None == [none |-> TRUE, val |-> NaN]
Some(x) == [none |-> FALSE, val |-> x]

RECURSIVE MoonOrbitsSinceFirst(_, _, _, _, _)
MoonOrbitsSinceFirst(pericentre_times, alignments, k, last_pericentre_count, moon_orbits_between) ==
    IF k > Len(alignments) THEN moon_orbits_between
    ELSE LET next_pericentre_count == SearchSorted(pericentre_times, alignments[k])
         IN  MoonOrbitsSinceFirst(pericentre_times, alignments, k + 1, last_pericentre_count,
                 Append(moon_orbits_between,
                        Max(0, next_pericentre_count - last_pericentre_count)))

\* Lines 73-78: the counts appended for alignments[k..], after the count at
\* the previous alignment.
RECURSIVE MoonOrbitsBetween(_, _, _, _, _)
MoonOrbitsBetween(pericentre_times, alignments, k, last_pericentre_count, moon_orbits_between) ==
    IF k > Len(alignments) THEN moon_orbits_between
    ELSE LET next_pericentre_count == SearchSorted(pericentre_times, alignments[k])
         IN  MoonOrbitsBetween(pericentre_times, alignments, k + 1, next_pericentre_count,
                 Append(moon_orbits_between,
                        Max(0, next_pericentre_count - last_pericentre_count)))

RECURSIVE SumSeq(_)
SumSeq(q) == IF q = <<>> THEN 0 ELSE Head(q) + SumSeq(Tail(q))

\* float(np.mean(moon_orbits_between)) if moon_orbits_between else None
MeanOrNone(moon_orbits_between) ==
    IF moon_orbits_between # <<>>
    THEN Some(Frac(SumSeq(moon_orbits_between), Len(moon_orbits_between)))
    ELSE None

EnoughEventsAlignmentsOnly(alignments, orbit_count) == Len(alignments) >= 2

\* if len(alignments) >= 2 and orbit_count > 0
EnoughEvents(alignments, orbit_count) == Len(alignments) >= 2 /\ orbit_count > 0

\* Lines 67-81.
MeanOrbits(pericentre_times, alignments) ==
    IF EnoughEvents(alignments, Len(pericentre_times))
    THEN MeanOrNone(MoonOrbitsBetween(pericentre_times, alignments, 2,
                                      SearchSorted(pericentre_times, alignments[1]), <<>>))
    ELSE None

\* summarise_metrics(times, star_positions, planet_positions, moon_positions)
SummariseMetrics(times, star_positions, planet_positions, moon_positions) ==
    LET pericentre_times == DetectPericentrePassages(times, moon_positions, planet_positions)
        alignments == DetectAlignments(times, star_positions, planet_positions,
                                       moon_positions, DefaultThreshold)
    IN  [moon_orbit_count |-> Len(pericentre_times),
         mean_orbits_between_alignments |-> MeanOrbits(pericentre_times, alignments),
         alignment_times |-> alignments,
         pericentre_times |-> pericentre_times]

\* Where the moon may be, seen from the planet.
MoonOffsets == {V(0, 0), V(3, 0), V(0, 4), V(-3, 0), V(5, 0)}

\* Where the planet may be, seen from the star, along a series of n samples:
\* on the x axis, on the 3-4-5 diagonal, or on the x axis with the second
\* sample on the star itself.
PlanetOffsetTracks(n) ==
    { [i \in 1..n |-> V(3, 0)],
      [i \in 1..n |-> V(3, 4)],
      [i \in 1..n |-> IF i = 2 THEN V(0, 0) ELSE V(3, 0)] }

\* The thresholds passed: the default, arccos(3/5), a right angle and the
\* obtuse angle arccos(-4/5).
Thresholds == {DefaultThreshold, ArcCos(Frac(3, 5)), ArcCos(Zero), ArcCos(Frac(-4, 5))}

\* Ten samples at times 1/2 .. 5: with the planet on the x axis the moon is
\* aligned at times 1, 3, 5 and nearest at times 3/2, 5/2, 7/2, 9/2.
ExampleMetricsOffsets ==
    <<V(0, 4), V(5, 0), V(-3, 0), V(0, 4), V(-3, 0), V(5, 0), V(-3, 0), V(0, 4), V(-3, 0),
      V(5, 0)>>

MoonOffsetSeries ==
    UNION { [1..n -> MoonOffsets] : n \in 0..MaxSamples } \cup {ExampleMetricsOffsets}

\* The star stays at (1, 1).
MetricsInit ==
    /\ \E offs \in MoonOffsetSeries :
         \E track \in PlanetOffsetTracks(Len(offs)) :
         /\ ev_times = [i \in 1..Len(offs) |-> Frac(i, 2)]
         /\ ev_star = [i \in 1..Len(offs) |-> V(1, 1)]
         /\ ev_planet = [i \in 1..Len(offs) |-> VAdd(V(1, 1), track[i])]
         /\ ev_moon = [i \in 1..Len(offs) |-> VAdd(VAdd(V(1, 1), track[i]), offs[i])]
    /\ ev_threshold \in Thresholds
    /\ ev_pericentres = Pending
    /\ ev_alignments = Pending
    /\ ev_metrics = Pending

DetectAlignmentsCall ==
    /\ ev_alignments = Pending
    /\ ev_alignments' =
           Ok(DetectAlignments(ev_times, ev_star, ev_planet, ev_moon, ev_threshold))
    /\ UNCHANGED <<ev_times, ev_planet, ev_moon, ev_star, ev_threshold, ev_pericentres,
                   ev_metrics>>
    /\ UNCHANGED <<RunVars, PhysVars>>

MetricsSpecInit == RunInit(<<>>) /\ PhysOff /\ MetricsInit

SummariseMetricsCall ==
    /\ ev_metrics = Pending
    /\ ev_metrics' = Ok(SummariseMetrics(ev_times, ev_star, ev_planet, ev_moon))
    /\ UNCHANGED <<ev_times, ev_planet, ev_moon, ev_star, ev_threshold, ev_pericentres,
                   ev_alignments>>
    /\ UNCHANGED <<RunVars, PhysVars>>

MetricsNext == DetectAlignmentsCall \/ SummariseMetricsCall

MetricsSpec == MetricsSpecInit /\ [][MetricsNext]_vars

\* The two vectors of sample i.
SpVector(i) == VSub(ev_planet[i], ev_star[i])
PmVector(i) == VSub(ev_moon[i], ev_planet[i])

\* The angle between two non-zero vectors is at most the angle of cosine c:
\* u.v >= c |u| |v|, stated on the squares.
WithinAngle(u, v, c) ==
    LET dot == VDot(u, v)
        lhs == RMul(dot, dot)
        rhs == RMul(RMul(c, c), RMul(VDot(u, u), VDot(v, v)))
    IN  IF RLe(Zero, c) THEN RLe(Zero, dot) /\ RLe(rhs, lhs)
        ELSE RLe(Zero, dot) \/ RLe(lhs, rhs)

\* Sample i is an alignment within the angle of cosine c.
AlignedAt(i, c) ==
    /\ SpVector(i) # ZeroVec
    /\ PmVector(i) # ZeroVec
    /\ WithinAngle(SpVector(i), PmVector(i), c)

AlignedSamples(c) == {i \in 1..Len(ev_times) : AlignedAt(i, c)}

InAlignments(i) == \E k \in 1..Len(ev_alignments.val) : ev_alignments.val[k] = ev_times[i]

\* C11: detect_alignments returns the time of a sample exactly when both
\* (primary - reference) and (minor - primary) are non-zero there and the
\* angle between them is at most the threshold, each once and in order; it
\* raises nothing, and a sample with a zero-length vector is not flagged while
\* the samples after it are still examined.
C11_AlignmentsWithinThreshold ==
    ev_alignments # Pending =>
        /\ ev_alignments.ok
        /\ \A i \in 1..Len(ev_times) : InAlignments(i) <=> AlignedAt(i, ev_threshold.cos)
        /\ Len(ev_alignments.val) = Cardinality(AlignedSamples(ev_threshold.cos))
        /\ \A k \in 2..Len(ev_alignments.val) :
             RLt(ev_alignments.val[k - 1], ev_alignments.val[k])

\* A degenerate sample between two flagged ones, and a sample whose angle is
\* the threshold itself.
C11_Witness ==
    /\ ev_alignments # Pending
    /\ Len(ev_times) >= 3
    /\ SpVector(2) = ZeroVec
    /\ InAlignments(1) /\ ~InAlignments(2) /\ InAlignments(3)
    /\ \E i \in 1..Len(ev_times) :
         /\ InAlignments(i)
         /\ AlignmentAngle(SpVector(i), PmVector(i)) = ev_threshold

\* The two vectors of sample i lie on one line; the moon is then on the far
\* side of the planet (same direction) or on the star's side (opposite).
Cross(u, v) == RSub(RMul(u[1], v[2]), RMul(u[2], v[1]))
Collinear(i) ==
    /\ SpVector(i) # ZeroVec
    /\ PmVector(i) # ZeroVec
    /\ Cross(SpVector(i), PmVector(i)) = Zero
MoonOnFarSide(i) == Collinear(i) /\ RLt(Zero, VDot(SpVector(i), PmVector(i)))
MoonOnStarSide(i) == Collinear(i) /\ RLt(VDot(SpVector(i), PmVector(i)), Zero)

\* C22: a sample with the moon on the star's side of the planet, on the line
\* of star and planet (angle pi), is not flagged for any threshold below pi;
\* of the collinear samples exactly those with the moon on the far side are
\* flagged.
C22_AlignmentIsDirectional ==
    (ev_alignments # Pending /\ RLt(RNeg(One), ev_threshold.cos)) =>
        \A i \in 1..Len(ev_times) :
            /\ MoonOnStarSide(i) => ~InAlignments(i)
            /\ Collinear(i) => (InAlignments(i) <=> MoonOnFarSide(i))

\* An obtuse threshold: a sample off the line, at a right angle, is flagged,
\* one with the moon on the far side is flagged, one with the moon on the
\* star's side is not.
C22_Witness ==
    /\ ev_alignments # Pending
    /\ RLt(ev_threshold.cos, Zero)
    /\ \E i, j, k \in 1..Len(ev_times) :
         /\ MoonOnStarSide(i) /\ ~InAlignments(i)
         /\ MoonOnFarSide(j) /\ InAlignments(j)
         /\ ~Collinear(k) /\ InAlignments(k)
         /\ VDot(SpVector(k), PmVector(k)) = Zero

\* What the summary found.
Summary == ev_metrics.val
Mean == Summary.mean_orbits_between_alignments

\* The pericentre timestamps strictly between t1 and t2.
StrictlyBetween(t1, t2) ==
    Cardinality({k \in 1..Len(Summary.pericentre_times) :
                    RLt(t1, Summary.pericentre_times[k]) /\ RLt(Summary.pericentre_times[k], t2)})

\* The pericentre timestamps from t1 on and before t2.
FromUntil(t1, t2) ==
    Cardinality({k \in 1..Len(Summary.pericentre_times) :
                    RLe(t1, Summary.pericentre_times[k]) /\ RLt(Summary.pericentre_times[k], t2)})

RECURSIVE SumOver(_, _)
SumOver(Count(_, _), k) ==
    IF k < 2 THEN 0
    ELSE Count(Summary.alignment_times[k - 1], Summary.alignment_times[k]) + SumOver(Count, k - 1)

\* The summary's detections are the detectors' own.
SummaryDetections ==
    /\ Summary.pericentre_times = DetectPericentrePassages(ev_times, ev_moon, ev_planet)
    /\ Summary.alignment_times =
           DetectAlignments(ev_times, ev_star, ev_planet, ev_moon, DefaultThreshold)
    /\ Summary.moon_orbit_count = Len(Summary.pericentre_times)

\* C12: whenever the summary reports a mean, the mean is the average, over the
\* consecutive pairs (t1, t2) of alignment timestamps, of the number of
\* pericentre timestamps p with t1 < p < t2.
C12_MeanCountsStrictlyBetween ==
    (ev_metrics # Pending /\ ~Mean.none) =>
        Mean.val = Frac(SumOver(StrictlyBetween, Len(Summary.alignment_times)),
                        Len(Summary.alignment_times) - 1)

\* What the code computes instead: p counts in the interval of (t1, t2) when
\* t1 <= p < t2.
C12_MeanCountsFromLeftEnd ==
    (ev_metrics # Pending /\ ~Mean.none) =>
        /\ SummaryDetections
        /\ Mean.val = Frac(SumOver(FromUntil, Len(Summary.alignment_times)),
                           Len(Summary.alignment_times) - 1)

\* The series is the ten-sample example, the planet on the x axis.
IsMetricsExample ==
    /\ Len(ev_times) = Len(ExampleMetricsOffsets)
    /\ \A i \in 1..Len(ev_times) : PmVector(i) = ExampleMetricsOffsets[i] /\ SpVector(i) = V(3, 0)

ExampleAlignments == <<R(1), R(3), R(5)>>
ExamplePericentres == <<Frac(3, 2), Frac(5, 2), Frac(7, 2), Frac(9, 2)>>

\* C13 as stated: alignments [1, 3, 5] and pericentres [1.5, 2.5, 3.5, 4.5]
\* give a mean of 1.
C13_ExampleMeanIsOne ==
    (ev_metrics # Pending /\ IsMetricsExample) =>
        /\ Summary.alignment_times = ExampleAlignments
        /\ Summary.pericentre_times = ExamplePericentres
        /\ Mean = Some(One)

\* C13, amended: alignments [1, 3, 5] and pericentres [1.5, 2.5, 3.5, 4.5]
\* give a mean of 2: 1.5 and 2.5 lie between 1 and 3, 3.5 and 4.5 between 3
\* and 5, two pericentres in each interval.
C13_ExampleMeanIsTwo ==
    (ev_metrics # Pending /\ IsMetricsExample) =>
        /\ Summary.alignment_times = ExampleAlignments
        /\ Summary.pericentre_times = ExamplePericentres
        /\ StrictlyBetween(R(1), R(3)) = 2
        /\ StrictlyBetween(R(3), R(5)) = 2
        /\ Mean = Some(R(2))

C13_Witness ==
    /\ ev_metrics # Pending
    /\ IsMetricsExample
    /\ Summary.moon_orbit_count = 4
    /\ ~Mean.none

\* No pericentre timestamp lies from the first alignment to the last.
NoPericentreInAnyInterval ==
    LET n == Len(Summary.alignment_times)
    IN  \A k \in 1..Len(Summary.pericentre_times) :
            \/ RLt(Summary.pericentre_times[k], Summary.alignment_times[1])
            \/ RLt(Summary.alignment_times[n], Summary.pericentre_times[k])

PericentresBefore(t) == SearchSorted(Summary.pericentre_times, t)

\* C23: the sample times increase, and whenever the summary reports a mean it
\* is the number of pericentre timestamps p with first alignment <= p < last
\* alignment, divided by the number of alignment timestamps less one: every
\* pair of consecutive alignment timestamps is an interval of its own, and
\* the count of an interval is never negative, so max(0, .) changes nothing.
C23_MeanTelescopes ==
    (ev_metrics # Pending /\ ~Mean.none) =>
        LET a == Summary.alignment_times
            n == Len(a)
        IN  /\ \A i \in 2..Len(ev_times) : RLt(ev_times[i - 1], ev_times[i])
            /\ n >= 2
            /\ Mean.val = Frac(FromUntil(a[1], a[n]), n - 1)
            /\ \A k \in 1..n :
                 PericentresBefore(a[k]) =
                     Cardinality({j \in 1..Len(Summary.pericentre_times) :
                                     RLt(Summary.pericentre_times[j], a[k])})
            /\ \A k \in 2..n : PericentresBefore(a[k]) - PericentresBefore(a[k - 1]) >= 0

\* An alignment that lasts over adjacent samples (half a time unit apart),
\* three alignment timestamps or more, and a pericentre counted.
C23_Witness ==
    /\ ev_metrics # Pending
    /\ ~Mean.none
    /\ Len(Summary.alignment_times) >= 3
    /\ \E k \in 2..Len(Summary.alignment_times) :
         RSub(Summary.alignment_times[k], Summary.alignment_times[k - 1]) = Half
    /\ RLt(Zero, Mean.val)
    /\ Mean.val # One

=============================================================================
